---- MODULE Spec2Model ----
(***************************************************************************)
(* Model of RAGService (apps/api/src/rag/service.py): one pipeline row of  *)
(* rag_pipelines, its rag_documents rows and its ChromaDB collection, and  *)
(* the request handlers create_pipeline, ingest_document, delete_document  *)
(* and query.  Every handler is an asyncio coroutine; a handler gives up   *)
(* control only at an await, so each action below is one database round    *)
(* trip (select or commit) or the synchronous code between two of them.    *)
(*                                                                         *)
(* Sessions are made with expire_on_commit = False (db/database.py:20-24): *)
(* the RAGPipelineDB object a handler has loaded keeps the column values   *)
(* of its select, and a commit writes the columns the handler assigned     *)
(* with the values computed from that copy.                                *)
(***************************************************************************)
EXTENDS Integers, FiniteSets, Sequences, TLC

\* ---------------------------------------------------------------- bounds
MaxDocs     == 2    \* document ids handed out by uuid4 in one behaviour
MaxChunks   == 2    \* largest number of chunks one document produces
MaxRequests == 4    \* requests served in one behaviour

Tasks     == {1, 2}                \* requests served at the same time
FileNames == {"a.txt", "b.txt"}    \* uploaded file names
DocIds    == 1..MaxDocs

\* ------------------------------------------------------- RAGPipelineStatus
CREATED   == "created"
INGESTING == "ingesting"
READY     == "ready"
ERROR     == "error"

VARIABLES
    overlap,    \* TRUE when the server runs requests concurrently
    nreq,       \* number of requests started so far
    pipeline,   \* the rag_pipelines row
    docs,       \* the rag_documents rows of the pipeline, by document id
    store,      \* the chunks held by the pipeline's ChromaDB collection
    nextDoc,    \* number of document ids handed out so far, plus one
    clock,      \* datetime.utcnow() as seen by the query statistics
    pc,         \* where each request handler stands
    sess,       \* the RAGPipelineDB object loaded in each handler's session
    loc,        \* the handler's local variables
    ret,        \* the response of the handler that finished last: res is
                \* "ok", "not_found", "not_ready", "failed" (the except block
                \* of ingest_document re-raised) or "commit_failed" (a commit
                \* raised and nothing handled it)
    call        \* one call followed through its computation: the arguments,
                \* the step reached and the values computed so far

ragvars == <<overlap, nreq, pipeline, docs, store, nextDoc, clock, pc, sess, loc, ret>>

vars == <<overlap, nreq, pipeline, docs, store, nextDoc, clock, pc, sess, loc, ret, call>>

\* ------------------------------------------------------------ rows, values
NoPipeline == [exists |-> FALSE, status |-> CREATED, document_count |-> 0,
               chunk_count |-> 0, total_queries |-> 0, last_query_at |-> 0]

\* the row marked deleted but still selected
DeletedPipeline_RowKept == [NoPipeline EXCEPT !.exists = TRUE, !.status = "deleted"]

\* the row is gone after delete_pipeline; uuid4 never hands its id out again
DeletedPipeline == [NoPipeline EXCEPT !.status = "deleted"]

NoDoc == [status |-> "none", file_name |-> "", chunk_count |-> 0]

NoLoc == [doc |-> 0, file_name |-> "", n |-> 0, fail |-> ""]

NoRet == [op |-> "", res |-> "", doc |-> 0]

NoCall == [op |-> "", step |-> ""]

\* RAGPipelineDB(...) as create_pipeline fills it in
NewPipelineRow == [exists |-> TRUE, status |-> CREATED, document_count |-> 0,
                   chunk_count |-> 0, total_queries |-> 0, last_query_at |-> 0]

\* RAGDocumentDB(..., chunk_count=len(chunks), status="processed")
ProcessedDocRow(f, n) == [status |-> "processed", file_name |-> f, chunk_count |-> n]

\* the failed document tracked like a processed one
ErrorDocRow_AsProcessed(f) == [status |-> "processed", file_name |-> f, chunk_count |-> 0]

\* RAGDocumentDB(..., chunk_count=0, status="error", error_message=str(e))
ErrorDocRow(f) == [status |-> "error", file_name |-> f, chunk_count |-> 0]

\* the records collection.add stores for one document: ids
\* f"{pipeline_id}_{document_id}_{i}" with the metadata of each chunk
ChunkRecords(d, f, n) ==
    {[document_id |-> d, chunk_index |-> i, file_name |-> f] : i \in 0..(n - 1)}

ChunksOf(d) == {c \in store : c.document_id = d}

Max0(x) == IF x > 0 THEN x ELSE 0

AllIdle == \A t \in Tasks : pc[t] = "idle"

\* a request takes the first free task; it may start when the server
\* overlaps requests or no other request is running
MayStart(t) ==
    /\ pc[t] = "idle"
    /\ nreq < MaxRequests
    /\ overlap \/ AllIdle
    /\ \A u \in Tasks : u < t => pc[u] # "idle"

Finish(t, r) ==
    /\ pc' = [pc EXCEPT ![t] = "idle"]
    /\ sess' = [sess EXCEPT ![t] = NoPipeline]
    /\ loc' = [loc EXCEPT ![t] = NoLoc]
    /\ ret' = r

Goto(t, p) == pc' = [pc EXCEPT ![t] = p]

\* the columns of the loaded row a handler goes on to read: the counters of
\* the documents (ingest_document, delete_document) or of the queries (query)
LoadForDocs(p) == [p EXCEPT !.total_queries = 0, !.last_query_at = 0]
LoadForQuery(p) == [p EXCEPT !.document_count = 0, !.chunk_count = 0]

\* a commit that sends an UPDATE of the pipeline row goes through when the
\* database accepts it (ok) and the row is still there; with the row deleted
\* the UPDATE matches no row and the flush raises
CommitOk(ok) == ok /\ pipeline.exists

\* a request starts: the previous response has been delivered
Start(t, p) == pc' = [pc EXCEPT ![t] = p] /\ ret' = NoRet

\* ------------------------------------------------------------------ Init
InitState ==
    /\ nreq = 0
    /\ pipeline = NoPipeline
    /\ docs = [d \in DocIds |-> NoDoc]
    /\ store = {}
    /\ nextDoc = 1
    /\ clock = 0
    /\ pc = [t \in Tasks |-> "idle"]
    /\ sess = [t \in Tasks |-> NoPipeline]
    /\ loc = [t \in Tasks |-> NoLoc]
    /\ ret = NoRet

Init == overlap = TRUE /\ InitState /\ call = NoCall

InitSeq == overlap = FALSE /\ InitState /\ call = NoCall

\* -------------------------------------------------------- create_pipeline
\* get_or_create_collection, then the row is built and the commit awaited
create_pipeline_begin(t) ==
    /\ MayStart(t)
    /\ pipeline = NoPipeline
    /\ \A u \in Tasks : pc[u] # "cp_commit"
    /\ Start(t, "cp_commit")
    /\ nreq' = nreq + 1
    /\ UNCHANGED <<call, overlap, pipeline, docs, store, nextDoc, clock, sess, loc>>

create_pipeline_commit(t) ==
    /\ pc[t] = "cp_commit"
    /\ pipeline' = NewPipelineRow
    /\ Finish(t, [NoRet EXCEPT !.op = "create", !.res = "ok"])
    /\ UNCHANGED <<call, overlap, nreq, docs, store, nextDoc, clock>>

\* -------------------------------------------------------- ingest_document
\* a commit sends UPDATE only for the columns whose assigned value differs
\* from the value the session loaded; the other columns keep what the
\* database holds
Written(loaded, assigned, stored) == IF assigned # loaded THEN assigned ELSE stored

\* the chunk counter advanced by one per document instead of len(chunks)
IngestedStats_OnePerDocument(s, n) ==
    [document_count |-> s.document_count + 1,
     chunk_count    |-> s.chunk_count + 1,
     status         |-> READY]

\* the status left as the loaded object has it
IngestedStats_StatusKept(s, n) ==
    [document_count |-> s.document_count + 1,
     chunk_count    |-> s.chunk_count + n,
     status         |-> s.status]

\* "Update pipeline stats": the counters and status assigned on success,
\* computed from the loaded object s
IngestedStats(s, n) ==
    [document_count |-> s.document_count + 1,
     chunk_count    |-> s.chunk_count + n,
     status         |-> READY]

\* the steps of the try block up to collection.add, for a file whose parse
\* result is `parse`, which the chunker cuts into n chunks and for which
\* the vector-store add succeeds or raises
IngestOutcome(parse, n, addOk) ==
    IF parse = "raises" THEN "parse_error"
    ELSE IF parse = "blank" THEN "empty_text"
    ELSE IF n = 0 THEN "no_chunks"
    ELSE IF ~addOk THEN "add_error"
    ELSE "ok"

\* select(RAGPipelineDB); "Pipeline not found" when there is no row
ingest_document_begin(t) ==
    /\ MayStart(t)
    /\ nextDoc + Cardinality({u \in Tasks : pc[u] = "ing_c1"}) <= MaxDocs
    /\ IF ~pipeline.exists
       THEN /\ Finish(t, [NoRet EXCEPT !.op = "ingest", !.res = "not_found"])
       ELSE /\ Start(t, "ing_c1")
            /\ sess' = [sess EXCEPT ![t] = LoadForDocs(pipeline)]
            /\ UNCHANGED loc
    /\ nreq' = nreq + 1
    /\ UNCHANGED <<call, overlap, pipeline, docs, store, nextDoc, clock>>

\* status = INGESTING; await session.commit(); document_id = uuid4()
\* the commit is outside the try block: when it raises the call ends
ingest_document_commit_ingesting(t, ok) ==
    /\ pc[t] = "ing_c1"
    /\ IF CommitOk(ok)
       THEN /\ pipeline' = [pipeline EXCEPT
                   !.status = Written(sess[t].status, INGESTING, @)]
            /\ sess' = [sess EXCEPT ![t].status = INGESTING]
            /\ loc' = [loc EXCEPT ![t].doc = nextDoc]
            /\ nextDoc' = nextDoc + 1
            /\ Goto(t, "ing_work")
            /\ UNCHANGED ret
       ELSE /\ Finish(t, [NoRet EXCEPT !.op = "ingest", !.res = "commit_failed"])
            /\ UNCHANGED <<pipeline, nextDoc>>
    /\ UNCHANGED <<call, overlap, nreq, docs, store, clock>>

\* parse, chunk, collection.add: synchronous, no await in between
ingest_document_work(t, f, parse, n, addOk) ==
    /\ pc[t] = "ing_work"
    /\ LET out == IngestOutcome(parse, n, addOk) IN
       IF out = "ok"
       THEN /\ store' = store \cup ChunkRecords(loc[t].doc, f, n)
            /\ loc' = [loc EXCEPT ![t].file_name = f, ![t].n = n]
            /\ Goto(t, "ing_c2")
       ELSE /\ loc' = [loc EXCEPT ![t].file_name = f, ![t].fail = out]
            /\ Goto(t, "ing_c3")
            /\ UNCHANGED store
    /\ UNCHANGED <<call, overlap, nreq, pipeline, docs, nextDoc, clock, sess, ret>>

\* session.add(db_doc); counters; status = READY; await session.commit()
\* when the commit raises the session rolls back and the except block runs
ingest_document_commit(t, ok) ==
    /\ pc[t] = "ing_c2"
    /\ IF CommitOk(ok)
       THEN /\ LET st == IngestedStats(sess[t], loc[t].n) IN
               pipeline' = [pipeline EXCEPT
                   !.document_count = Written(sess[t].document_count, st.document_count, @),
                   !.chunk_count    = Written(sess[t].chunk_count, st.chunk_count, @),
                   !.status         = Written(sess[t].status, st.status, @)]
            /\ docs' = [docs EXCEPT ![loc[t].doc] =
                           ProcessedDocRow(loc[t].file_name, loc[t].n)]
            /\ Finish(t, [op |-> "ingest", res |-> "ok", doc |-> loc[t].doc])
       ELSE /\ loc' = [loc EXCEPT ![t].fail = "commit_error"]
            /\ Goto(t, "ing_c3")
            /\ UNCHANGED <<pipeline, docs, sess, ret>>
    /\ UNCHANGED <<call, overlap, nreq, store, nextDoc, clock>>

\* except: session.add(error row); status = ERROR; await session.commit(); raise
ingest_document_except(t, ok) ==
    /\ pc[t] = "ing_c3"
    /\ IF CommitOk(ok)
       THEN /\ docs' = [docs EXCEPT ![loc[t].doc] = ErrorDocRow(loc[t].file_name)]
            /\ pipeline' = [pipeline EXCEPT !.status = ERROR]
       ELSE UNCHANGED <<docs, pipeline>>
    /\ Finish(t, [op |-> "ingest", res |-> IF CommitOk(ok) THEN "failed" ELSE "commit_failed",
                  doc |-> loc[t].doc])
    /\ UNCHANGED <<call, overlap, nreq, store, nextDoc, clock>>

\* ------------------------------------------------------------------ query
\* the check letting a pipeline through that has documents but is ingesting
QueryAccepts_WhileIngesting(s) == s.status \in {READY, INGESTING}

\* if db_pipeline.status.value != RAGPipelineStatus.READY: raise ValueError
QueryAccepts(s) == s.status = READY

\* "Update query stats"
QueriedStats(s, now) ==
    [total_queries |-> s.total_queries + 1, last_query_at |-> now]

\* the document ids of the chunks collection.query can return
Retrievable == {c.document_id : c \in store}

\* select(RAGPipelineDB); "Pipeline not found" when there is no row
query_begin(t) ==
    /\ MayStart(t)
    /\ IF ~pipeline.exists
       THEN /\ Finish(t, [NoRet EXCEPT !.op = "query", !.res = "not_found"])
       ELSE /\ Start(t, "q_check")
            /\ sess' = [sess EXCEPT ![t] = LoadForQuery(pipeline)]
            /\ UNCHANGED loc
    /\ nreq' = nreq + 1
    /\ UNCHANGED <<call, overlap, pipeline, docs, store, nextDoc, clock>>

\* the READY check on the loaded row, then collection.count and
\* collection.query; the session is closed without a commit on rejection
query_retrieve(t) ==
    /\ pc[t] = "q_check"
    /\ IF QueryAccepts(sess[t])
       THEN /\ Goto(t, "q_commit")
            /\ UNCHANGED <<sess, loc, ret>>
       ELSE /\ Finish(t, [NoRet EXCEPT !.op = "query", !.res = "not_ready"])
    /\ UNCHANGED <<call, overlap, nreq, pipeline, docs, store, nextDoc, clock>>

\* total_queries + 1; last_query_at = utcnow(); await session.commit()
query_commit(t, ok) ==
    /\ pc[t] = "q_commit"
    /\ clock' = clock + 1
    /\ IF CommitOk(ok)
       THEN /\ LET st == QueriedStats(sess[t], clock') IN
               pipeline' = [pipeline EXCEPT
                   !.total_queries = Written(sess[t].total_queries, st.total_queries, @),
                   !.last_query_at = Written(sess[t].last_query_at, st.last_query_at, @)]
            /\ Finish(t, [NoRet EXCEPT !.op = "query", !.res = "ok"])
       ELSE /\ Finish(t, [NoRet EXCEPT !.op = "query", !.res = "commit_failed"])
            /\ UNCHANGED pipeline
    /\ UNCHANGED <<call, overlap, nreq, docs, store, nextDoc>>

\* -------------------------------------------------------- delete_document
\* "Update pipeline counts" of delete_document, computed from the loaded
\* pipeline s and the loaded document row's chunk_count n
DeletedStats(s, n) ==
    LET dc == Max0(s.document_count - 1) IN
    [document_count |-> dc,
     chunk_count    |-> Max0(s.chunk_count - n),
     status         |-> IF dc = 0 THEN CREATED ELSE s.status]

\* collection.delete(where={"file_name": doc.file_name})
CollectionDelete(f) == {c \in store : c.file_name # f}

\* select(RAGDocumentDB) by id and pipeline; "Document not found"
delete_document_begin(t, d) ==
    /\ MayStart(t)
    /\ IF docs[d].status = "none"
       THEN /\ Finish(t, [NoRet EXCEPT !.op = "delete", !.res = "not_found"])
       ELSE /\ Start(t, "del_clean")
            /\ loc' = [loc EXCEPT ![t] = [doc |-> d, file_name |-> docs[d].file_name,
                                          n |-> docs[d].chunk_count, fail |-> ""]]
            /\ UNCHANGED sess
    /\ nreq' = nreq + 1
    /\ UNCHANGED <<call, overlap, pipeline, docs, store, nextDoc, clock>>

\* the try block: select(RAGPipelineDB), collection.delete, then the
\* counters; an exception of the vector store is logged and skips the
\* counter update
delete_document_cleanup(t, raises) ==
    /\ pc[t] = "del_clean"
    /\ sess' = [sess EXCEPT ![t] = LoadForDocs(pipeline)]
    /\ IF raises \/ ~pipeline.exists
       THEN /\ loc' = [loc EXCEPT ![t].fail = "cleanup_error"]
            /\ UNCHANGED store
       ELSE /\ store' = CollectionDelete(loc[t].file_name)
            /\ UNCHANGED loc
    /\ Goto(t, "del_commit")
    /\ UNCHANGED <<call, overlap, nreq, pipeline, docs, nextDoc, clock, ret>>

\* await session.delete(doc); await session.commit()
delete_document_commit(t, ok) ==
    /\ pc[t] = "del_commit"
    /\ IF ok /\ (pipeline.exists \/ loc[t].fail = "cleanup_error")
       THEN /\ docs' = [docs EXCEPT ![loc[t].doc] = NoDoc]
            /\ IF loc[t].fail = "cleanup_error"
               THEN UNCHANGED pipeline
               ELSE LET st == DeletedStats(sess[t], loc[t].n) IN
                    pipeline' = [pipeline EXCEPT
                      !.document_count = Written(sess[t].document_count, st.document_count, @),
                      !.chunk_count    = Written(sess[t].chunk_count, st.chunk_count, @),
                      !.status         = Written(sess[t].status, st.status, @)]
            /\ Finish(t, [NoRet EXCEPT !.op = "delete", !.res = "ok", !.doc = loc[t].doc])
       ELSE /\ Finish(t, [NoRet EXCEPT !.op = "delete", !.res = "commit_failed",
                                       !.doc = loc[t].doc])
            /\ UNCHANGED <<pipeline, docs>>
    /\ UNCHANGED <<call, overlap, nreq, store, nextDoc, clock>>

\* ------------------------------------------------------------ get_pipeline
\* select(RAGPipelineDB); "Pipeline not found" when there is no row
get_pipeline(t) ==
    /\ MayStart(t)
    /\ pc' = pc /\ sess' = sess /\ loc' = loc
    /\ ret' = [NoRet EXCEPT !.op = "get",
                  !.res = IF pipeline.exists THEN "ok" ELSE "not_found"]
    /\ nreq' = nreq + 1
    /\ UNCHANGED <<call, overlap, pipeline, docs, store, nextDoc, clock>>

\* --------------------------------------------------------- delete_pipeline
\* the rows of the documents go with the row of their pipeline
\* (relationship documents, cascade="all, delete-orphan")
CascadeDelete(dd) == [d \in DocIds |-> NoDoc]

\* shutil.rmtree(persist_dir): the directory of the PersistentClient that
\* holds the collection
RemoveCollection(st) == {}

\* select(RAGPipelineDB); "Pipeline not found" when there is no row
delete_pipeline_begin(t) ==
    /\ MayStart(t)
    /\ IF ~pipeline.exists
       THEN /\ Finish(t, [NoRet EXCEPT !.op = "delete_pipeline", !.res = "not_found"])
       ELSE /\ Start(t, "dp_commit")
            /\ UNCHANGED <<sess, loc>>
    /\ nreq' = nreq + 1
    /\ UNCHANGED <<call, overlap, pipeline, docs, store, nextDoc, clock>>

\* await session.delete(db_pipeline); await session.commit()
delete_pipeline_commit(t, ok) ==
    /\ pc[t] = "dp_commit"
    /\ IF ok
       THEN /\ pipeline' = DeletedPipeline
            /\ docs' = CascadeDelete(docs)
            /\ Goto(t, "dp_files")
            /\ UNCHANGED <<sess, loc, ret>>
       ELSE /\ Finish(t, [NoRet EXCEPT !.op = "delete_pipeline", !.res = "commit_failed"])
            /\ UNCHANGED <<pipeline, docs>>
    /\ UNCHANGED <<call, overlap, nreq, store, nextDoc, clock>>

\* after the session is closed: the cached client is dropped and the
\* directory of the collection removed
delete_pipeline_files(t) ==
    /\ pc[t] = "dp_files"
    /\ store' = RemoveCollection(store)
    /\ Finish(t, [NoRet EXCEPT !.op = "delete_pipeline", !.res = "ok"])
    /\ UNCHANGED <<call, overlap, nreq, pipeline, docs, nextDoc, clock>>

\* ------------------------------------------------------------------- Next
Next ==
    \E t \in Tasks :
        \/ create_pipeline_begin(t)
        \/ create_pipeline_commit(t)
        \/ ingest_document_begin(t)
        \/ \E ok \in BOOLEAN : ingest_document_commit_ingesting(t, ok)
        \/ \E f \in FileNames, parse \in {"raises", "blank", "text"},
              n \in 0..MaxChunks, addOk \in BOOLEAN :
                ingest_document_work(t, f, parse, n, addOk)
        \/ \E ok \in BOOLEAN : ingest_document_commit(t, ok)
        \/ \E ok \in BOOLEAN : ingest_document_except(t, ok)
        \/ query_begin(t)
        \/ query_retrieve(t)
        \/ \E ok \in BOOLEAN : query_commit(t, ok)
        \/ \E d \in DocIds : delete_document_begin(t, d)
        \/ \E raises \in BOOLEAN : delete_document_cleanup(t, raises)
        \/ \E ok \in BOOLEAN : delete_document_commit(t, ok)
        \/ get_pipeline(t)
        \/ delete_pipeline_begin(t)
        \/ \E ok \in BOOLEAN : delete_pipeline_commit(t, ok)
        \/ delete_pipeline_files(t)

\* requests overlap
Spec == Init /\ [][Next]_vars

\* requests are served one at a time
SpecSeq == InitSeq /\ [][Next]_vars

TypeOK ==
    /\ pipeline.exists => pipeline.status \in {CREATED, INGESTING, READY, ERROR}
    /\ nextDoc \in 1..(MaxDocs + 1)
    /\ \A c \in store : c.document_id \in DocIds

\* ------------------------------------------------------------ definitions
ProcessedDocs(dd) == {d \in DocIds : dd[d].status = "processed"}

RECURSIVE SumChunkCount(_, _)
SumChunkCount(dd, S) ==
    IF S = {} THEN 0
    ELSE LET d == CHOOSE x \in S : TRUE
         IN dd[d].chunk_count + SumChunkCount(dd, S \ {d})

IngestFailed(r) == r.op = "ingest" /\ r.res \in {"failed", "commit_failed"}

\* task t finishes an ingest_document call with an exception in this step
IngestRaises(t) ==
    /\ pc[t] \in {"ing_c1", "ing_c3"}
    /\ pc'[t] = "idle"
    /\ IngestFailed(ret')

\* ======================================================================
\* create_pipeline and get_pipeline, with the configuration
\* ======================================================================
\* Field(ge=..., le=...) of ChunkingConfig and RetrievalConfig; the score
\* threshold is counted in hundredths
CHUNK_SIZE_MIN       == 100
CHUNK_SIZE_MAX       == 10000
CHUNK_OVERLAP_MAX    == 2000
TOP_K_MAX            == 50
RERANKING_TOP_K_MAX  == 20
SCORE_THRESHOLD_MAX  == 100

\* Optional[...]: None is the empty set, a value v the set {v}
None == {}
Some(v) == {v}
Unwrap(o) == CHOOSE v \in o : TRUE
OrDefault(o, d) == IF o = None THEN d ELSE Unwrap(o)

\* strings whose characters matter are sequences of characters
Chars_pipeline_ == <<"p", "i", "p", "e", "l", "i", "n", "e", "_">>

ChunkingStrategy == {"fixed_size", "recursive", "sentence", "paragraph", "semantic"}
LLMProvider == {"gemini", "groq", "openrouter", "openai", "anthropic", "deepseek"}

\* a member of a str-Enum class, and its value (what json.dumps writes)
Member(cls, v) == <<cls, v>>
EnumValue(m) == m[2]

\* str(uuid.uuid4()): the first characters of two ids
PipelineIds == {<<"3", "f", "a", "8", "5", "f", "6", "4", "-", "5", "7">>,
                <<"3", "f", "a", "8", "5", "f", "6", "4", "-", "9", "c">>}

\* the JSON bodies sent to POST /pipelines: a field that is left out is None
Bodies ==
    [strategy        : {None, Some("fixed_size"), Some("words")},
     chunk_size      : {None, Some(CHUNK_SIZE_MIN - 1), Some(CHUNK_SIZE_MIN),
                        Some(CHUNK_SIZE_MAX), Some(CHUNK_SIZE_MAX + 1)},
     chunk_overlap   : {None, Some(0 - 1), Some(0), Some(CHUNK_SIZE_MIN),
                        Some(CHUNK_OVERLAP_MAX), Some(CHUNK_OVERLAP_MAX + 1)},
     top_k           : {None, Some(0), Some(TOP_K_MAX), Some(TOP_K_MAX + 1)},
     reranking_top_k : {None, Some(0), Some(RERANKING_TOP_K_MAX),
                        Some(RERANKING_TOP_K_MAX + 1)},
     score_threshold : {None, Some(0 - 1), Some(0), Some(SCORE_THRESHOLD_MAX),
                        Some(SCORE_THRESHOLD_MAX + 1)},
     collection_name : {None, Some(<<>>), Some(<<"d", "o", "c", "s">>)},
     llm_provider    : {None, Some("groq")}]

\* pydantic: the field constraints of the five blocks (extra fields are
\* forbidden, there is no validator across fields)
ValidBody(b) ==
    /\ \A v \in b.strategy : v \in ChunkingStrategy
    /\ \A v \in b.chunk_size : CHUNK_SIZE_MIN <= v /\ v <= CHUNK_SIZE_MAX
    /\ \A v \in b.chunk_overlap : 0 <= v /\ v <= CHUNK_OVERLAP_MAX
    /\ \A v \in b.top_k : 1 <= v /\ v <= TOP_K_MAX
    /\ \A v \in b.score_threshold : 0 <= v /\ v <= SCORE_THRESHOLD_MAX
    /\ \A v \in b.reranking_top_k : 1 <= v /\ v <= RERANKING_TOP_K_MAX
    /\ \A v \in b.llm_provider : v \in LLMProvider

\* RAGPipelineConfig(**body): the validated object, defaults filled in
ParseConfig(b) ==
    [chunking     |-> [strategy |-> Member("ChunkingStrategy",
                                           OrDefault(b.strategy, "recursive")),
                       chunk_size    |-> OrDefault(b.chunk_size, 1000),
                       chunk_overlap |-> OrDefault(b.chunk_overlap, 200)],
     embedding    |-> [provider |-> Member("EmbeddingProvider", "chroma_default"),
                       model    |-> None],
     vector_store |-> [store_type |-> Member("VectorStoreType", "chroma"),
                       collection_name |-> b.collection_name],
     retrieval    |-> [top_k             |-> OrDefault(b.top_k, 10),
                       score_threshold   |-> b.score_threshold,
                       reranking_enabled |-> TRUE,
                       reranking_top_k   |-> OrDefault(b.reranking_top_k, 5),
                       reranker_model    |-> "qwen3"],
     llm          |-> [provider |-> Member("LLMProvider",
                                           OrDefault(b.llm_provider, "gemini")),
                       model    |-> "gemini-2.5-flash"]]

\* block.model_dump() as the JSON column stores it: an enum member is
\* written as its value
DumpChunking(c) == [c EXCEPT !.strategy = EnumValue(@)]
DumpEmbedding(c) == [c EXCEPT !.provider = EnumValue(@)]
DumpVectorStore(c) == [c EXCEPT !.store_type = EnumValue(@)]
DumpRetrieval(c) == c
DumpLLM(c) == [c EXCEPT !.provider = EnumValue(@)]

\* the configuration as the client submitted it, in JSON
ConfigJson(config) ==
    [chunking     |-> DumpChunking(config.chunking),
     embedding    |-> DumpEmbedding(config.embedding),
     vector_store |-> DumpVectorStore(config.vector_store),
     retrieval    |-> DumpRetrieval(config.retrieval),
     llm          |-> DumpLLM(config.llm)]

\* config.vector_store.collection_name or f"pipeline_{pipeline_id[:8]}"
CollectionName(config, id) ==
    LET given == config.vector_store.collection_name IN
    IF given = None \/ given = Some(<<>>)
    THEN Chars_pipeline_ \o SubSeq(id, 1, 8)
    ELSE Unwrap(given)

\* the retrieval block written with the default top_k whatever was sent
PipelineConfigRow_DefaultRetrieval(config, id) ==
    [id                  |-> id,
     chunking_config     |-> DumpChunking(config.chunking),
     embedding_config    |-> DumpEmbedding(config.embedding),
     vector_store_config |-> [DumpVectorStore(config.vector_store) EXCEPT
                                !.collection_name = Some(CollectionName(config, id))],
     retrieval_config    |-> [DumpRetrieval(config.retrieval) EXCEPT !.top_k = 10],
     llm_config          |-> DumpLLM(config.llm)]

\* the configuration columns of RAGPipelineDB(...) in create_pipeline
PipelineConfigRow(config, id) ==
    [id                  |-> id,
     chunking_config     |-> DumpChunking(config.chunking),
     embedding_config    |-> DumpEmbedding(config.embedding),
     vector_store_config |-> [DumpVectorStore(config.vector_store) EXCEPT
                                !.collection_name = Some(CollectionName(config, id))],
     retrieval_config    |-> DumpRetrieval(config.retrieval),
     llm_config          |-> DumpLLM(config.llm)]

\* _pipeline_to_response: p holds the status and the counters of the row,
\* row its configuration columns
pipeline_to_response(p, row) ==
    [id             |-> row.id,
     status         |-> p.status,
     config         |-> [chunking     |-> row.chunking_config,
                         embedding    |-> row.embedding_config,
                         vector_store |-> row.vector_store_config,
                         retrieval    |-> row.retrieval_config,
                         llm          |-> row.llm_config],
     document_count |-> p.document_count,
     chunk_count    |-> p.chunk_count,
     total_queries  |-> p.total_queries]

CreateCall(b) ==
    [op |-> "create_pipeline", step |-> "submitted", body |-> b,
     config |-> None, collection |-> None, row |-> None, response |-> None]

InitConfig ==
    /\ overlap = FALSE
    /\ InitState
    /\ call \in {CreateCall(b) : b \in Bodies}

\* FastAPI builds the RAGPipelineConfig argument of the route; a body that
\* fails validation is answered before create_pipeline is called
create_pipeline_validate ==
    /\ call.op = "create_pipeline" /\ call.step = "submitted"
    /\ IF ValidBody(call.body)
       THEN call' = [call EXCEPT !.step = "validated",
                                 !.config = Some(ParseConfig(call.body))]
       ELSE call' = [call EXCEPT !.step = "rejected"]
    /\ UNCHANGED ragvars

\* create_pipeline: uuid4, get_or_create_collection, the row, the commit
\* and the response; when the commit raises the router answers 400
create_pipeline_config(id, ok) ==
    /\ call.op = "create_pipeline" /\ call.step = "validated"
    /\ LET config == Unwrap(call.config)
           row    == PipelineConfigRow(config, id)
       IN IF ok
          THEN /\ pipeline' = NewPipelineRow
               /\ call' = [call EXCEPT
                     !.step = "created",
                     !.collection = Some(CollectionName(config, id)),
                     !.row = Some(row),
                     !.response = Some(pipeline_to_response(NewPipelineRow, row))]
          ELSE /\ pipeline' = pipeline
               /\ call' = [call EXCEPT
                     !.step = "failed",
                     !.collection = Some(CollectionName(config, id))]
    /\ UNCHANGED <<overlap, nreq, docs, store, nextDoc, clock, pc, sess, loc, ret>>

\* get_pipeline of the pipeline just created
get_pipeline_config ==
    /\ call.op = "create_pipeline" /\ call.step = "created"
    /\ call' = [call EXCEPT
          !.step = "got",
          !.response = Some(pipeline_to_response(pipeline, Unwrap(call.row)))]
    /\ UNCHANGED ragvars

NextConfig ==
    \/ create_pipeline_validate
    \/ \E id \in PipelineIds, ok \in BOOLEAN : create_pipeline_config(id, ok)
    \/ get_pipeline_config

\* one create_pipeline call, then get_pipeline
SpecConfig == InitConfig /\ [][NextConfig]_vars

\* ======================================================================
\* _call_llm: the dispatcher over the LLM providers
\* ======================================================================
fallback_order == <<"gemini", "groq", "openrouter", "openai", "anthropic", "deepseek">>

\* what one call of a provider meets: no API key in the settings, an
\* exception of the client library, a reply without text, a reply with text
ProviderOutcomes == {"no_key", "raises", "empty", "text"}

\* _call_gemini ... _call_deepseek: None without a key and after an
\* exception (caught and logged), else the text of the reply
ProviderReply(prov, outcome) ==
    IF outcome \in {"no_key", "raises"} THEN None
    ELSE IF outcome = "empty" THEN Some("")
    ELSE Some(prov)

\* `if result:` on an Optional[str]
Truthy(r) == r # None /\ r # Some("")

\* the fallback loop going through every provider, the configured one too
FallbackProviders_NoSkip(provider) == fallback_order

\* for fb_provider in fallback_order: if fb_provider == provider: continue
FallbackProviders(provider) ==
    SelectSeq(fallback_order, LAMBDA fb : fb # provider)

LLMCall(provider, env) ==
    [op |-> "call_llm", step |-> "primary", provider |-> provider,
     env |-> env, tried |-> <<>>, result |-> None]

InitLLM ==
    /\ overlap = FALSE
    /\ InitState
    /\ call \in {LLMCall(pr, env) : pr \in LLMProvider,
                                   env \in [LLMProvider -> ProviderOutcomes]}

\* "Try configured provider first"
call_llm_primary ==
    /\ call.op = "call_llm" /\ call.step = "primary"
    /\ LET r == ProviderReply(call.provider, call.env[call.provider]) IN
       call' = [call EXCEPT
          !.tried  = Append(@, call.provider),
          !.result = IF Truthy(r) THEN r ELSE None,
          !.step   = IF Truthy(r) THEN "returned" ELSE "fallback"]
    /\ UNCHANGED ragvars

\* one iteration of the fallback loop that calls a provider; `return None`
\* after the last one
call_llm_fallback ==
    /\ call.op = "call_llm" /\ call.step = "fallback"
    /\ LET rest == FallbackProviders(call.provider)
           i    == Len(call.tried)
           fb   == rest[i]
           r    == ProviderReply(fb, call.env[fb])
       IN call' = [call EXCEPT
             !.tried  = Append(@, fb),
             !.result = IF Truthy(r) THEN r ELSE None,
             !.step   = IF Truthy(r) \/ i = Len(rest) THEN "returned" ELSE "fallback"]
    /\ UNCHANGED ragvars

NextLLM == call_llm_primary \/ call_llm_fallback

\* one _call_llm dispatch
SpecLLM == InitLLM /\ [][NextLLM]_vars

\* ======================================================================
\* query: retrieval, reranking, trimming and the answer of one call
\* ======================================================================
MaxN == 11    \* largest number of chunks in the collection queried

Min(a, b) == IF a < b THEN a ELSE b

\* a collection of 0 chunks under a READY pipeline is what delete_document
\* leaves when two documents of one file name were ingested and one deleted
CollectionSizes == {0, 1, 3, MaxN}

\* POST /query bodies and the retrieval block of the pipeline: top_k and
\* reranking_enabled of the request override the configuration when given;
\* score_threshold in hundredths
QueryRequests ==
    [top_k : {None, Some(1), Some(12)},
     reranking_enabled : {None, Some(FALSE), Some(TRUE)},
     generate_answer : BOOLEAN]

RetrievalConfigs ==
    [top_k : {10},
     score_threshold : {None, Some(0), Some(50)},
     reranking_enabled : BOOLEAN,
     reranking_top_k : {1, 5, RERANKING_TOP_K_MAX},
     reranker_model : {"qwen3", "llm"}]

\* cosine distances (in hundredths, 0..200) of the chunks nearest to the
\* query, nearest first, as collection.query returns them
DistanceProfiles == [base : {0, 90}, step : {0, 10, 60}]
Distance(profile, i) == Min(200, profile.base + profile.step * (i - 1))

\* the scores of a reranker for m candidates
ScoreProfiles == {"asc", "desc", "flat", "zero"}
RerankScore(profile, i, m) ==
    IF profile = "asc" THEN 10 * i
    ELSE IF profile = "desc" THEN 10 * (m - i)
    ELSE IF profile = "flat" THEN 50
    ELSE 0

\* what the text returned by _call_llm for the rerank prompt parses to: no
\* text at all, text that is not JSON, a JSON number or null, a JSON object
\* or string, a list of the wrong length, a list with a string that is no
\* number, a list with a null, a list of numbers
RerankReplies == {"none", "not_json", "scalar", "object", "short_list",
                  "bad_item", "null_item", "scores"}

\* request.reranking_enabled if not None else retrieval_config.get(...)
RerankingEnabled(request, config) ==
    OrDefault(request.reranking_enabled, config.reranking_enabled)

\* request.top_k or retrieval_config["top_k"]
TopK(request, config) == OrDefault(request.top_k, config.top_k)

\* more candidates than top_k are fetched without any cap
FetchK_Uncapped(top_k, reranking_enabled) ==
    IF reranking_enabled THEN top_k + 5 ELSE top_k

\* fetch_k = min(top_k + 5, 15) if reranking_enabled else top_k
FetchK(top_k, reranking_enabled) ==
    IF reranking_enabled THEN Min(top_k + 5, 15) ELSE top_k

\* "n_results": min(fetch_k, collection.count() or 1)
NResults(fetch_k, count) == Min(fetch_k, IF count = 0 THEN 1 ELSE count)

\* collection.query: the n_results nearest chunks of a collection of
\* `count` chunks, nearest first; rank is the position in that order
CollectionQuery(count, n_results, profile) ==
    [i \in 1..Min(n_results, count) |-> [rank |-> i, dist |-> Distance(profile, i)]]

\* score = max(0.0, 1.0 - dist)
Score(dist) == Max0(100 - dist)

\* "Parse results": a RetrievedChunk per result, those under a (truthy)
\* threshold left out
ParseResults(results, threshold) ==
    LET chunks == [i \in 1..Len(results) |->
                      [rank |-> results[i].rank, score |-> Score(results[i].dist),
                       rerank_score |-> None]]
    IN SelectSeq(chunks, LAMBDA c :
           ~(threshold # None /\ threshold # Some(0) /\ c.score < Unwrap(threshold)))

\* the reranker given every retrieved chunk
RerankInput_All(chunks) == chunks

\* chunks_for_reranking = retrieved_chunks[:10]
RerankInput(chunks) == SubSeq(chunks, 1, Min(10, Len(chunks)))

\* sorted(chunks, key=lambda c: c.rerank_score or 0, reverse=True): a stable
\* sort, chunks of equal key keep their order
RECURSIVE SortedByRerankScore(_)
SortedByRerankScore(chunks) ==
    IF chunks = <<>> THEN <<>>
    ELSE LET n      == Len(chunks)
             c      == chunks[n]
             before == SortedByRerankScore(SubSeq(chunks, 1, n - 1))
             key(x) == OrDefault(x.rerank_score, 0)
             ahead  == SelectSeq(before, LAMBDA x : key(x) >= key(c))
             behind == SelectSeq(before, LAMBDA x : key(x) < key(c))
         IN ahead \o <<c>> \o behind

\* for chunk, score in zip(chunks, scores): chunk.rerank_score = float(score)
\* carried out for the first k chunks
WithRerankScores(chunks, profile, k) ==
    [i \in 1..Len(chunks) |->
        IF i <= k
        THEN [chunks[i] EXCEPT !.rerank_score = Some(RerankScore(profile, i, Len(chunks)))]
        ELSE chunks[i]]

\* _rerank_chunks_llm for the parsed reply: the scores are assigned chunk by
\* chunk, so a list whose second entry cannot be converted leaves the first
\* chunk with a rerank_score; float(None) and len() of a number raise
\* TypeError, which the except clause (JSONDecodeError, ValueError) lets pass
rerank_chunks_llm(chunks, top_k, reply, profile) ==
    LET m      == Len(chunks)
        scored == WithRerankScores(chunks, profile, m)
        partly == WithRerankScores(chunks, profile, Min(2, m) - 1)
    IN IF reply = "scores"
       THEN [raises |-> FALSE, chunks |-> scored,
             reranked |-> Some(SubSeq(SortedByRerankScore(scored), 1, Min(top_k, m)))]
       ELSE IF reply \in {"bad_item", "null_item"}
       THEN [raises |-> reply = "null_item", chunks |-> partly, reranked |-> None]
       ELSE [raises |-> reply = "scalar", chunks |-> chunks, reranked |-> None]

\* _rerank_chunks: the local Qwen3 reranker when it is configured and gives
\* scores, else the LLM
rerank_chunks(chunks, top_k, reranker_model, qwen, reply, profile) ==
    IF reranker_model = "qwen3" /\ qwen = "scores"
    THEN LET scored == WithRerankScores(chunks, profile, Len(chunks)) IN
         [raises |-> FALSE, chunks |-> scored,
          reranked |-> Some(SubSeq(SortedByRerankScore(scored), 1,
                                   Min(top_k, Len(chunks))))]
    ELSE rerank_chunks_llm(chunks, top_k, reply, profile)

\* _generate_answer answering with an empty text when the LLM gave none
generate_answer_EmptyText(reply) == IF Truthy(reply) THEN reply ELSE Some("")

\* _generate_answer: the text of _call_llm, None when there is none
generate_answer(reply) == IF Truthy(reply) THEN reply ELSE None

QueryCall(n, request, config) ==
    [op |-> "query", step |-> "accepted", count |-> n,
     request |-> request, config |-> config,
     fetch_k |-> 0, n_results |-> 0, ann |-> <<>>, chunks |-> <<>>,
     passed |-> 0, reranker |-> [qwen |-> "unused", llm |-> "unused"],
     reranking_applied |-> FALSE, answer_reply |-> None, response |-> None]

\* a READY pipeline whose collection holds n chunks: one document of n
\* chunks; for n = 0 what is left of two documents named a.txt after
\* delete_document of the first
InitQuery ==
    /\ overlap = FALSE
    /\ clock = 0
    /\ pc = [t \in Tasks |-> "idle"]
    /\ sess = [t \in Tasks |-> NoPipeline]
    /\ loc = [t \in Tasks |-> NoLoc]
    /\ \E n \in CollectionSizes :
         /\ pipeline = [NewPipelineRow EXCEPT !.status = READY, !.document_count = 1,
                                              !.chunk_count = IF n = 0 THEN 1 ELSE n]
         /\ docs = [d \in DocIds |->
                      IF n = 0 /\ d = 2 THEN ProcessedDocRow("a.txt", 1)
                      ELSE IF n > 0 /\ d = 1 THEN ProcessedDocRow("a.txt", n)
                      ELSE NoDoc]
         /\ store = ChunkRecords(1, "a.txt", n)
         /\ nextDoc = IF n = 0 THEN 3 ELSE 2
         /\ nreq = IF n = 0 THEN 4 ELSE 2
         /\ ret = IF n = 0 THEN [op |-> "delete", res |-> "ok", doc |-> 1]
                           ELSE [op |-> "ingest", res |-> "ok", doc |-> 1]
         /\ call \in {QueryCall(n, rq, cf) : rq \in QueryRequests, cf \in RetrievalConfigs}

\* lines 553-615: top_k, fetch_k, collection.query and the parsing of its
\* results
query_call_retrieve(profile) ==
    /\ call.op = "query" /\ call.step = "accepted"
    /\ LET top_k     == TopK(call.request, call.config)
           fetch_k   == FetchK(top_k, RerankingEnabled(call.request, call.config))
           n_results == NResults(fetch_k, Cardinality(store))
           results   == CollectionQuery(Cardinality(store), n_results, profile)
           chunks    == ParseResults(results, call.config.score_threshold)
       IN call' = [call EXCEPT !.step = "retrieved", !.fetch_k = fetch_k,
                      !.n_results = n_results, !.ann = chunks, !.chunks = chunks]
    /\ UNCHANGED ragvars

\* lines 617-630: reranking, when enabled and something was retrieved
query_call_rerank(qwen, reply, profile) ==
    /\ call.op = "query" /\ call.step = "retrieved"
    /\ RerankingEnabled(call.request, call.config) /\ Len(call.chunks) > 0
    /\ LET input == RerankInput(call.chunks)
           model == call.config.reranker_model
           local == model = "qwen3" /\ qwen = "scores"
           out   == rerank_chunks(input, call.config.reranking_top_k, model,
                                  qwen, reply, profile)
           rest  == SubSeq(call.chunks, Len(input) + 1, Len(call.chunks))
       IN call' = [call EXCEPT
             !.step     = IF out.raises THEN "raised" ELSE "reranked",
             !.passed   = Len(input),
             !.reranker = [qwen |-> IF model = "qwen3" THEN qwen ELSE "unused",
                           llm  |-> IF local THEN "unused" ELSE reply],
             !.chunks   = IF out.reranked # None THEN Unwrap(out.reranked)
                          ELSE out.chunks \o rest,
             !.reranking_applied = out.reranked # None]
    /\ UNCHANGED ragvars

\* lines 632-653: trim to top_k, the query statistics and their commit,
\* then the answer and the response
query_call_respond(ok, reply) ==
    /\ call.op = "query"
    /\ \/ call.step = "reranked"
       \/ /\ call.step = "retrieved"
          /\ ~(RerankingEnabled(call.request, call.config) /\ Len(call.chunks) > 0)
    /\ clock' = clock + 1
    /\ LET top_k  == TopK(call.request, call.config)
           chunks == SubSeq(call.chunks, 1, Min(top_k, Len(call.chunks)))
           asked  == call.request.generate_answer /\ chunks # <<>>
           st     == QueriedStats(pipeline, clock')
       IN IF ok
          THEN /\ pipeline' = [pipeline EXCEPT !.total_queries = st.total_queries,
                                               !.last_query_at = st.last_query_at]
               /\ call' = [call EXCEPT
                     !.step = "returned",
                     !.chunks = chunks,
                     !.answer_reply = IF asked THEN reply ELSE None,
                     !.response = Some([
                         answer  |-> IF asked THEN generate_answer(reply) ELSE None,
                         results |-> chunks,
                         total_results |-> Len(chunks),
                         reranking_applied |-> call.reranking_applied])]
          ELSE /\ pipeline' = pipeline
               /\ call' = [call EXCEPT !.step = "commit_failed", !.chunks = chunks]
    /\ UNCHANGED <<overlap, nreq, docs, store, nextDoc, pc, sess, loc, ret>>

NextQuery ==
    \/ \E profile \in DistanceProfiles : query_call_retrieve(profile)
    \/ \E qwen \in {"load_fails", "scores"}, reply \in RerankReplies,
          profile \in ScoreProfiles : query_call_rerank(qwen, reply, profile)
    \/ \E ok \in BOOLEAN, reply \in {None, Some("answer")} :
          query_call_respond(ok, reply)

\* one query on a READY pipeline
SpecQuery == InitQuery /\ [][NextQuery]_vars

\* ======================================================================
\* upload_document: the route in front of ingest_document
\* ======================================================================
\* str.lower() on a sequence of characters
Lower(cs) ==
    LET UpperCase == <<"A", "B", "C", "D", "E", "F", "G", "H", "I", "J", "K", "L", "M",
                       "N", "O", "P", "Q", "R", "S", "T", "U", "V", "W", "X", "Y", "Z">>
        LowerCase == <<"a", "b", "c", "d", "e", "f", "g", "h", "i", "j", "k", "l", "m",
                       "n", "o", "p", "q", "r", "s", "t", "u", "v", "w", "x", "y", "z">>
    IN [i \in 1..Len(cs) |->
          IF \E k \in 1..26 : UpperCase[k] = cs[i]
          THEN LowerCase[CHOOSE k \in 1..26 : UpperCase[k] = cs[i]]
          ELSE cs[i]]

\* str.rfind(c): the last position of c, 0 when there is none
RFind(cs, c) ==
    IF \E i \in 1..Len(cs) : cs[i] = c
    THEN CHOOSE i \in 1..Len(cs) : cs[i] = c /\ \A j \in (i + 1)..Len(cs) : cs[j] # c
    ELSE 0

\* os.path.splitext(p)[1]: from the last dot of the last path component,
\* unless only dots stand before it in that component
SplitExt(cs) ==
    LET sep == RFind(cs, "/")
        dot == RFind(cs, ".")
    IN IF dot > sep /\ \E i \in (sep + 1)..(dot - 1) : cs[i] # "."
       THEN SubSeq(cs, dot, Len(cs))
       ELSE <<>>

RECURSIVE Join(_)
Join(cs) == IF cs = <<>> THEN "" ELSE Head(cs) \o Join(Tail(cs))

\* the extensions with .exe among them
allowed_extensions_WithExe ==
    {<<".", "t", "x", "t">>, <<".", "c", "s", "v">>, <<".", "m", "d">>,
     <<".", "p", "d", "f">>, <<".", "j", "s", "o", "n">>, <<".", "d", "o", "c", "x">>,
     <<".", "h", "t", "m", "l">>, <<".", "h", "t", "m">>, <<".", "e", "x", "e">>}

allowed_extensions ==
    {<<".", "t", "x", "t">>, <<".", "c", "s", "v">>, <<".", "m", "d">>,
     <<".", "p", "d", "f">>, <<".", "j", "s", "o", "n">>, <<".", "d", "o", "c", "x">>,
     <<".", "h", "t", "m", "l">>, <<".", "h", "t", "m">>}

max_size == 20 * 1024 * 1024

\* file.filename of the uploads: None, empty, and names in characters
UploadNames ==
    {None, Some(<<>>),
     Some(<<"a", ".", "t", "x", "t">>), Some(<<"A", ".", "T", "X", "T">>),
     Some(<<"r", ".", "P", "d", "f">>), Some(<<"p", ".", "h", "t", "m">>),
     Some(<<"x", ".", "e", "x", "e">>), Some(<<"a", ".", "t", "x", "t", ".", "e", "x", "e">>),
     Some(<<"t", "x", "t">>), Some(<<".", "t", "x", "t">>),
     Some(<<"a", ".", "m", "d", "/", "b">>), Some(<<"a", ".", "t", "x", "t", ".">>),
     Some(<<"a", ".", "t", "x", "t", "x">>)}

\* len(content) of the uploads
UploadSizes == {0, 1, max_size, max_size + 1}

\* file_ext: "" without a file name
FileExt(filename) ==
    IF filename # None /\ filename # Some(<<>>)
    THEN Lower(SplitExt(Unwrap(filename)))
    ELSE <<>>

\* the three checks of the route, in their order; "" when the upload passes
UploadRejection(filename, size) ==
    IF FileExt(filename) \notin allowed_extensions THEN "unsupported_type"
    ELSE IF size = 0 THEN "empty_file"
    ELSE IF size > max_size THEN "too_large"
    ELSE ""

UploadCall(filename, size) ==
    [op |-> "upload", step |-> "received", filename |-> filename, size |-> size,
     started |-> nreq, before |-> [pipeline |-> pipeline, docs |-> docs, store |-> store],
     detail |-> "", http |-> 0]

\* a pipeline just created, or one with a document of one chunk
InitUpload ==
    /\ overlap = FALSE
    /\ clock = 0
    /\ pc = [t \in Tasks |-> "idle"]
    /\ sess = [t \in Tasks |-> NoPipeline]
    /\ loc = [t \in Tasks |-> NoLoc]
    /\ \E n \in {0, 1} :
         /\ pipeline = IF n = 0 THEN NewPipelineRow
                        ELSE [NewPipelineRow EXCEPT !.status = READY,
                                  !.document_count = 1, !.chunk_count = 1]
         /\ docs = [d \in DocIds |-> IF n = 1 /\ d = 1 THEN ProcessedDocRow("a.txt", 1)
                                                       ELSE NoDoc]
         /\ store = ChunkRecords(1, "a.txt", n)
         /\ nextDoc = n + 1
         /\ nreq = n + 1
         /\ ret = IF n = 0 THEN [NoRet EXCEPT !.op = "create", !.res = "ok"]
                           ELSE [op |-> "ingest", res |-> "ok", doc |-> 1]
    /\ call \in {UploadCall(fn, sz) : fn \in UploadNames, sz \in UploadSizes}

\* the checks before the service is called: HTTP 400 on the first that fails
upload_document_validate ==
    /\ call.op = "upload" /\ call.step = "received"
    /\ LET why == UploadRejection(call.filename, call.size) IN
       call' = IF why # ""
               THEN [call EXCEPT !.step = "responded", !.detail = why, !.http = 400]
               ELSE [call EXCEPT !.step = "validated"]
    /\ UNCHANGED ragvars

\* await service.ingest_document(pipeline_id, file.filename, content)
upload_document_ingest ==
    /\ call.op = "upload" /\ call.step = "validated"
    /\ \/ nreq = call.started /\ ingest_document_begin(1)
       \/ \E ok \in BOOLEAN : ingest_document_commit_ingesting(1, ok)
       \/ \E parse \in {"raises", "blank", "text"}, n \in 0..MaxChunks, addOk \in BOOLEAN :
             ingest_document_work(1, Join(Unwrap(call.filename)), parse, n, addOk)
       \/ \E ok \in BOOLEAN : ingest_document_commit(1, ok)
       \/ \E ok \in BOOLEAN : ingest_document_except(1, ok)

\* the result of the service, or the HTTPException made of what it raised:
\* 404 for a ValueError, 500 for any other exception
upload_document_respond(code) ==
    /\ call.op = "upload" /\ call.step = "validated"
    /\ nreq > call.started /\ pc[1] = "idle"
    /\ code = 200 <=> ret.res = "ok"
    /\ call' = [call EXCEPT !.step = "responded", !.http = code]
    /\ UNCHANGED ragvars

NextUpload ==
    \/ upload_document_validate
    \/ upload_document_ingest
    \/ \E code \in {200, 404, 500} : upload_document_respond(code)

\* one upload to an existing pipeline
SpecUpload == InitUpload /\ [][NextUpload]_vars

\* ======================================================================
\* the embedding function of a pipeline's collection
\* ======================================================================
\* embedding_config as create_pipeline stored it: provider and model
EmbeddingConfigs ==
    {[provider |-> "chroma_default", model |-> None],
     [provider |-> "openai", model |-> None],
     [provider |-> "google", model |-> None],
     [provider |-> "huggingface", model |-> Some("BAAI/bge-small-en-v1.5")]}

\* the providers that read an API key from the settings or the environment
KeyedProviders == {"openai", "google", "huggingface"}

\* _get_embedding_function: the model that embeds, "all-MiniLM-L6-v2" being
\* the one ChromaDB uses when it is handed no function (None is returned for
\* chroma_default and for a provider whose API key is not configured)
get_embedding_function(config, keys) ==
    IF config.provider = "chroma_default" \/ config.provider \notin keys
    THEN "all-MiniLM-L6-v2"
    ELSE IF config.provider = "openai"
    THEN OrDefault(config.model, "text-embedding-3-small")
    ELSE IF config.provider = "google"
    THEN OrDefault(config.model, "models/embedding-001")
    ELSE OrDefault(config.model, "sentence-transformers/all-MiniLM-L6-v2")

\* the length of the vectors a model produces
EmbeddingDim(model) ==
    CASE model = "text-embedding-3-small" -> 1536
      [] model = "models/embedding-001"   -> 768
      [] OTHER                            -> 384

\* collection.add / collection.query: ChromaDB raises when the vectors
\* handed to it have another length than those the collection holds
DimensionFits(model, held) == \A m \in held : EmbeddingDim(m) = EmbeddingDim(model)

\* the pipeline is created; the collection is empty
InitEmbed ==
    /\ overlap = FALSE /\ InitState
    /\ call \in [op : {"embed"}, step : {"created"}, config : EmbeddingConfigs,
                keys : SUBSET KeyedProviders, held : {{}}, prior : {{}},
                compared : {{}}, model : {""}, result : {""}]

\* an API key is configured or removed between two requests
embed_set_keys(keys) ==
    /\ call.op = "embed"
    /\ keys # call.keys
    /\ call' = [call EXCEPT !.step = "configured", !.keys = keys, !.prior = call.held,
                            !.model = "", !.result = ""]
    /\ UNCHANGED ragvars

\* ingest_document lines 429-461: the function is resolved anew and the
\* chunks embedded with it are added
embed_ingest ==
    /\ call.op = "embed"
    /\ LET model == get_embedding_function(call.config, call.keys) IN
       call' = [call EXCEPT
           !.step   = "ingest", !.model = model, !.prior = call.held,
           !.held   = IF DimensionFits(model, call.held) THEN @ \cup {model} ELSE @,
           !.result = IF DimensionFits(model, call.held) THEN "ok" ELSE "InvalidDimension"]
    /\ UNCHANGED ragvars

\* query lines 557-592: the function is resolved anew and the query text
\* embedded with it is compared with the vectors held
embed_query ==
    /\ call.op = "embed"
    /\ LET model == get_embedding_function(call.config, call.keys) IN
       call' = [call EXCEPT
           !.step     = "query", !.model = model, !.prior = call.held,
           !.compared = IF DimensionFits(model, call.held)
                        THEN @ \cup {<<model, m>> : m \in call.held} ELSE @,
           !.result   = IF DimensionFits(model, call.held) THEN "ok" ELSE "InvalidDimension"]
    /\ UNCHANGED ragvars

NextEmbed ==
    \/ \E keys \in SUBSET KeyedProviders : embed_set_keys(keys)
    \/ embed_ingest
    \/ embed_query

\* ingests and queries of one pipeline while API keys come and go
SpecEmbed == InitEmbed /\ [][NextEmbed]_vars

\* ======================================================================
\* _chunk_text: fixed-size and recursive chunking
\* ======================================================================
MaxIter == 6    \* iterations of the while loop followed in one call

\* str.strip(): without the white space at both ends
Strip(cs) ==
    LET inked == {i \in 1..Len(cs) : cs[i] \notin {" ", "\n", "\t"}} IN
    IF inked = {} THEN <<>>
    ELSE SubSeq(cs, CHOOSE i \in inked : \A j \in inked : i <= j,
                    CHOOSE i \in inked : \A j \in inked : i >= j)

\* text[a:b] with Python's reading of negative and too large indices
PySlice(cs, a, b) ==
    LET at(i) == IF i < 0 THEN Max0(i + Len(cs)) ELSE Min(i, Len(cs)) IN
    IF at(a) < at(b) THEN SubSeq(cs, at(a) + 1, at(b)) ELSE <<>>

\* the loop advancing by size whatever the overlap
FixedSizeIteration_NoOverlap(text, size, chunk_overlap, start, chunks) ==
    LET chunk == Strip(PySlice(text, start, start + size)) IN
    [start   |-> start + size,
     chunks  |-> IF chunk # <<>> THEN Append(chunks, chunk) ELSE chunks,
     looping |-> start + size < Len(text)]

\* one iteration of the while loop of _chunk_fixed_size, on the locals
\* start and chunks; looping says whether the loop goes on
FixedSizeIteration(text, size, chunk_overlap, start, chunks) ==
    LET end   == start + size
        chunk == Strip(PySlice(text, start, end))
        next  == IF chunk_overlap > 0 THEN end - chunk_overlap ELSE end
    IN [start   |-> next,
        chunks  |-> IF chunk # <<>> THEN Append(chunks, chunk) ELSE chunks,
        looping |-> next < Len(text)]

\* _chunk_fixed_size: the while loop from start on
RECURSIVE chunk_fixed_size(_, _, _, _, _)
chunk_fixed_size(text, size, chunk_overlap, start, chunks) ==
    IF start >= Len(text) THEN chunks
    ELSE LET it == FixedSizeIteration(text, size, chunk_overlap, start, chunks) IN
         IF it.looping
         THEN chunk_fixed_size(text, size, chunk_overlap, it.start, it.chunks)
         ELSE it.chunks

\* separators = ["\n\n", "\n", ". ", " "]
separators == << <<"\n", "\n">>, <<"\n">>, <<".", " ">>, <<" ">> >>

\* the positions at which sep stands in text (sep in text: there is one)
Occurrences(text, sep) ==
    {i \in 1..(Len(text) - Len(sep) + 1) : SubSeq(text, i, i + Len(sep) - 1) = sep}

\* text.split(sep)
RECURSIVE Split(_, _)
Split(text, sep) ==
    IF Occurrences(text, sep) = {} THEN <<text>>
    ELSE LET i == CHOOSE x \in Occurrences(text, sep) :
                      \A y \in Occurrences(text, sep) : x <= y
         IN <<SubSeq(text, 1, i - 1)>> \o Split(SubSeq(text, i + Len(sep), Len(text)), sep)

RECURSIVE recursive_split(_, _, _, _)
RECURSIVE recursive_split_parts(_, _, _, _, _, _, _)

\* the loop `for part in parts` of _recursive_split from parts[i] on, with
\* the locals current_chunk and chunks, and what follows the loop
recursive_split_parts(parts, i, sep, remaining_seps, size, chunk_overlap, st) ==
    LET IfAny(c) == IF c # <<>> THEN <<c>> ELSE <<>> IN
    IF i > Len(parts)
    THEN SelectSeq(st.chunks \o IfAny(Strip(st.current_chunk)), LAMBDA c : c # <<>>)
    ELSE LET part      == parts[i]
             candidate == IF st.current_chunk # <<>>
                          THEN Strip(st.current_chunk \o sep \o part)
                          ELSE Strip(part)
             flushed   == st.chunks \o IfAny(Strip(st.current_chunk))
             next      == IF Len(candidate) <= size
                          THEN [current_chunk |-> candidate, chunks |-> st.chunks]
                          ELSE IF remaining_seps # <<>> /\ Len(part) > size
                          THEN [current_chunk |-> <<>>,
                                chunks |-> flushed \o recursive_split(part, remaining_seps,
                                                                      size, chunk_overlap)]
                          ELSE [current_chunk |-> Strip(part), chunks |-> flushed]
         IN recursive_split_parts(parts, i + 1, sep, remaining_seps, size, chunk_overlap, next)

\* _recursive_split
recursive_split(text, seps, size, chunk_overlap) ==
    IF Len(text) <= size THEN (IF Strip(text) # <<>> THEN <<Strip(text)>> ELSE <<>>)
    ELSE LET found == {k \in 1..Len(seps) : Occurrences(text, seps[k]) # {}} IN
         IF found = {} THEN chunk_fixed_size(text, size, chunk_overlap, 0, <<>>)
         ELSE LET k == CHOOSE x \in found : \A y \in found : x <= y IN
              recursive_split_parts(Split(text, seps[k]), 1, seps[k],
                                    SubSeq(seps, k + 1, Len(seps)), size, chunk_overlap,
                                    [current_chunk |-> <<>>, chunks |-> <<>>])

\* texts of the documents, of letters that change from one position to the
\* next.  For fixed-size chunking: without white space, with a blank at the
\* end of the first slice of 100, and with blanks all over the second slice.
\* For recursive chunking with chunk_size 100: words and sentences that fit,
\* a word of 150 letters beside a blank, after a sentence and in a
\* paragraph, a text without separators, and short texts
ChunkTexts ==
    LET Word(n)  == [i \in 1..n |-> <<"a", "b", "c", "d", "e", "f", "g">>[(i % 7) + 1]]
        Blank(n) == [i \in 1..n |-> " "]
    IN [fixed_size |->
          {Word(1), Word(3), Word(100), Word(260),
           Word(99) \o Blank(1) \o Word(160),
           Word(80) \o Blank(100) \o Word(80)},
        recursive |->
          {Word(60) \o <<" ">> \o Word(60) \o <<" ">> \o Word(60),
           Word(150) \o <<" ">> \o Word(10),
           Word(40) \o <<".", " ">> \o Word(150) \o <<".", " ">> \o Word(30),
           Word(30) \o <<" ">> \o Word(150) \o <<"\n", "\n">> \o Word(20),
           Word(10) \o <<"\n">> \o Word(95) \o <<"\n">> \o Blank(3),
           Word(260), Word(50), Word(3) \o <<" ">>}]

\* chunk_size and chunk_overlap are values ChunkingConfig accepts
InitChunk ==
    /\ overlap = FALSE /\ InitState
    /\ call \in [op : {"chunk"}, strategy : {"fixed_size"}, step : {"loop"},
                 text : ChunkTexts.fixed_size, chunk_size : {CHUNK_SIZE_MIN, 150},
                 chunk_overlap : {0, 20, 99, CHUNK_SIZE_MIN, CHUNK_OVERLAP_MAX},
                 start : {0}, chunks : {<<>>}, starts : {<<>>}]
          \cup [op : {"chunk"}, strategy : {"recursive"}, step : {"loop"},
                 text : ChunkTexts.recursive, chunk_size : {CHUNK_SIZE_MIN}, chunk_overlap : {0, 20},
                 start : {0}, chunks : {<<>>}, starts : {<<>>}]

\* while start < len(text): one more iteration
chunk_fixed_size_iterate ==
    /\ call.op = "chunk" /\ call.strategy = "fixed_size" /\ call.step = "loop"
    /\ Len(call.starts) < MaxIter
    /\ LET it == FixedSizeIteration(call.text, call.chunk_size, call.chunk_overlap,
                                    call.start, call.chunks)
       IN call' = [call EXCEPT !.start = it.start, !.chunks = it.chunks,
                               !.starts = Append(@, call.start),
                               !.step = IF it.looping THEN "loop" ELSE "done"]
    /\ UNCHANGED ragvars

\* _chunk_recursive
chunk_recursive ==
    /\ call.op = "chunk" /\ call.strategy = "recursive" /\ call.step = "loop"
    /\ call' = [call EXCEPT !.step = "done",
                   !.chunks = recursive_split(call.text, separators,
                                              call.chunk_size, call.chunk_overlap)]
    /\ UNCHANGED ragvars

NextChunk ==
    \/ chunk_fixed_size_iterate
    \/ chunk_recursive

\* one call of the chunker
SpecChunk == InitChunk /\ [][NextChunk]_vars

\* ------------------------------------------------- workflow run status
\* (services/run_service.py, engine/workflow_engine.py,
\*  db/repositories/run_repository.py)

\* RunService.VALID_TRANSITIONS
VALID_TRANSITIONS ==
    [current \in {"queued", "validating", "running", "completed", "failed", "cancelled"} |->
        CASE current = "queued"     -> {"validating", "running", "cancelled", "failed"}
          [] current = "validating" -> {"running", "failed", "cancelled"}
          [] current = "running"    -> {"completed", "failed", "cancelled"}
          [] OTHER                  -> {}]

\* _validate_transition raises InvalidStateTransitionError unless this holds
validate_transition(current, target) ==
    /\ current \in DOMAIN VALID_TRANSITIONS
    /\ target \in VALID_TRANSITIONS[current]

\* the status each RunService method validates against and then writes
TargetStatus(method) ==
    CASE method = "start_run"    -> "running"
      [] method = "complete_run" -> "completed"
      [] method = "fail_run"     -> "failed"
      [] method = "cancel_run"   -> "cancelled"

\* a task that is between two requests
IdleTask == [op |-> "idle", method |-> "", pc |-> "idle"]

\* create_run stores the run as QUEUED; every request and every background
\* execution has a session of its own
InitRun ==
    /\ overlap = FALSE /\ InitState
    /\ call = [op |-> "run", status |-> "queued", task |-> [t \in Tasks |-> IdleTask]]

\* a request calls one RunService method on the run
run_service_call(t, method) ==
    /\ call.op = "run"
    /\ call.task[t].op = "idle"
    /\ call' = [call EXCEPT !.task[t] = [op |-> "call", method |-> method, pc |-> "get"]]
    /\ UNCHANGED ragvars

\* WorkflowEngine.execute loads the run and the workflow and enters the try
\* block, whose first statement is start_run
execute(t) ==
    /\ call.op = "run"
    /\ call.task[t].op = "idle"
    /\ call' = [call EXCEPT !.task[t] = [op |-> "execute", method |-> "start_run", pc |-> "get"]]
    /\ UNCHANGED ragvars

\* run = await repository.get(run_id); _validate_transition(run.status, target).
\* An InvalidStateTransitionError ends a RunService call; raised in the try
\* block of execute it is caught by "except Exception", which calls fail_run;
\* raised by that fail_run it leaves execute.
run_get(t) ==
    /\ call.op = "run"
    /\ call.task[t].pc = "get"
    /\ LET task == call.task[t] IN
       call' = [call EXCEPT !.task[t] =
           IF validate_transition(call.status, TargetStatus(task.method))
           THEN [task EXCEPT !.pc = "update_status"]
           ELSE IF task.op = "execute" /\ task.method \in {"start_run", "complete_run"}
                THEN [task EXCEPT !.method = "fail_run"]
                ELSE IdleTask]
    /\ UNCHANGED ragvars

\* await repository.update_status(run_id, target): the status is assigned
\* and committed without looking at the stored one. After start_run execute
\* goes on to the nodes; every other method ends the call or the execution.
update_status(t) ==
    /\ call.op = "run"
    /\ call.task[t].pc = "update_status"
    /\ LET task == call.task[t] IN
       call' = [call EXCEPT
           !.status  = TargetStatus(task.method),
           !.task[t] = IF task.op = "execute" /\ task.method = "start_run"
                       THEN [task EXCEPT !.pc = "nodes"]
                       ELSE IdleTask]
    /\ UNCHANGED ragvars

\* the nodes of the workflow run: execute goes on to complete_run, or an
\* exception takes it to fail_run
execute_nodes(t, ok) ==
    /\ call.op = "run"
    /\ call.task[t].pc = "nodes"
    /\ call' = [call EXCEPT !.task[t].method = IF ok THEN "complete_run" ELSE "fail_run",
                            !.task[t].pc = "get"]
    /\ UNCHANGED ragvars

NextRun ==
    \/ \E t \in Tasks, method \in {"start_run", "complete_run", "fail_run", "cancel_run"} :
           run_service_call(t, method)
    \/ \E t \in Tasks : execute(t)
    \/ \E t \in Tasks : run_get(t)
    \/ \E t \in Tasks : update_status(t)
    \/ \E t \in Tasks, ok \in BOOLEAN : execute_nodes(t, ok)

\* RunService calls and executions of one run, overlapping
SpecRun == InitRun /\ [][NextRun]_vars

\* ----------------------------------------------------------------- claims

\* C1: a query is accepted only when the status loaded from the stored row
\* is READY; a query on a pipeline that is CREATED, INGESTING or ERROR is
\* rejected and changes no field of the pipeline, no document and no chunk.
C1_QueryOnlyWhenReady ==
    [][\A t \in Tasks :
        /\ (pc[t] = "idle" /\ pc'[t] = "q_check") =>
              sess'[t].status = pipeline.status
        /\ (pc[t] = "q_check" /\ pc'[t] = "q_commit") =>
              sess[t].status = READY
        /\ (/\ pc[t] = "q_check" /\ pc'[t] # "q_check"
            /\ sess[t].status \in {CREATED, INGESTING, ERROR}) =>
              /\ pc'[t] = "idle"
              /\ ret' = [op |-> "query", res |-> "not_ready", doc |-> 0]
              /\ pipeline' = pipeline /\ docs' = docs /\ store' = store]_vars

C1_Witness ==
    /\ ret.op = "query" /\ ret.res = "not_ready"
    /\ pipeline.exists
    /\ pipeline.status = INGESTING
    /\ pipeline.total_queries = 0 /\ pipeline.last_query_at = 0

\* C2: between requests, document_count is the number of rows with status
\* 'processed' and chunk_count the sum of their chunk_count.
C2_CountersMatchRows ==
    (AllIdle /\ pipeline.exists) =>
        /\ pipeline.document_count = Cardinality(ProcessedDocs(docs))
        /\ pipeline.chunk_count = SumChunkCount(docs, ProcessedDocs(docs))

\* C3: between requests (and unless a failed commit has left the status
\* INGESTING), status is READY iff document_count >= 1 and the pipeline is
\* not in ERROR; a pipeline with document_count 0 is not READY, and a
\* pipeline that holds a processed document and no failed one is READY.
C3_ReadyIffDocuments ==
    (AllIdle /\ pipeline.exists /\ pipeline.status # INGESTING) =>
        /\ pipeline.status = READY <=>
              (pipeline.document_count >= 1 /\ pipeline.status # ERROR)
        /\ pipeline.document_count = 0 => pipeline.status # READY
        /\ (/\ ProcessedDocs(docs) # {}
            /\ \A d \in DocIds : docs[d].status # "error") =>
              pipeline.status = READY

\* C4: when delete_document(A) of a processed document A completes with a
\* working vector store, the collection holds no chunk of A and every chunk
\* of every other processed document, its size is the sum of chunk_count
\* over the remaining processed rows, and document_count dropped by 1.
C4_DeleteRemovesOnlyItsChunks ==
    [][\A t \in Tasks :
        (/\ pc[t] = "del_commit" /\ pc'[t] = "idle" /\ ret'.res = "ok"
         /\ loc[t].fail = ""
         /\ docs[loc[t].doc].status = "processed") =>
            /\ \A c \in store' : c.document_id # loc[t].doc
            /\ \A b \in ProcessedDocs(docs') :
                  Cardinality({c \in store' : c.document_id = b}) = docs'[b].chunk_count
            /\ Cardinality(store') = SumChunkCount(docs', ProcessedDocs(docs'))
            /\ pipeline'.document_count = pipeline.document_count - 1]_vars

\* C5: once a failed ingest_document call has returned (its except block
\* has recorded the failure), the collection holds no chunk whose
\* document_id is the id of that ingest.
C5_NoChunksOfFailedIngest ==
    (ret.op = "ingest" /\ ret.res = "failed") => ChunksOf(ret.doc) = {}

\* C6: when every ingest that was given a document id has succeeded and no
\* document was deleted, then between requests document_count is the number
\* of those ingests and chunk_count the sum of their chunk counts.
C6_NoLostIncrement ==
    (/\ AllIdle /\ pipeline.exists
     /\ \A d \in DocIds : d < nextDoc => docs[d].status = "processed") =>
        /\ pipeline.document_count = nextDoc - 1
        /\ pipeline.chunk_count = SumChunkCount(docs, ProcessedDocs(docs))

\* C7: the commit of a successful ingest that no other request overlaps grows
\* chunk_count by the chunk_count of the new row, which is the number of
\* chunks added to the collection and the chunks_created returned; it grows
\* document_count by 1 and leaves the status READY.
C7_IngestAccounting ==
    [][\A t \in Tasks :
        (pc[t] = "ing_c2" /\ pc'[t] = "idle") =>
            LET d == loc[t].doc IN
            /\ ret' = [op |-> "ingest", res |-> "ok", doc |-> d]
            /\ docs'[d].status = "processed"
            /\ pipeline'.chunk_count - pipeline.chunk_count = docs'[d].chunk_count
            /\ docs'[d].chunk_count = Cardinality({c \in store' : c.document_id = d})
            /\ docs'[d].chunk_count = loc[t].n
            /\ pipeline'.document_count = pipeline.document_count + 1
            /\ pipeline'.status = READY]_vars

C7_Witness ==
    /\ ret.op = "ingest" /\ ret.res = "ok" /\ ret.doc = 2
    /\ docs[1].status = "processed" /\ docs[2].status = "processed"
    /\ docs[2].chunk_count = 2
    /\ Cardinality(ChunksOf(2)) = 2
    /\ pipeline.document_count = 2
    /\ pipeline.chunk_count = docs[1].chunk_count + 2
    /\ pipeline.status = READY

\* C8: a query that reads the collection sees the chunks of a document only
\* when the Document row of that document is there, too.
C8_ReaderSeesAllOrNothing ==
    [][\A t \in Tasks :
        (pc[t] = "q_check" /\ pc'[t] = "q_commit") =>
            \A d \in Retrievable : docs[d].status # "none"]_vars

\* C9: an ingest that fails at parsing, on empty text or at chunking leaves
\* the status ERROR when the pipeline holds no processed document and READY
\* when it holds one.
C9_FailureStatus ==
    [][\A t \in Tasks :
        (/\ pc[t] = "ing_c3" /\ pc'[t] = "idle" /\ ret'.res = "failed"
         /\ loc[t].fail \in {"parse_error", "empty_text", "no_chunks"}) =>
            pipeline'.status =
                IF ProcessedDocs(docs') # {} THEN READY ELSE ERROR]_vars

\* C10 as stated: every ingest_document call that fails after the pipeline
\* was found writes one row with status 'error' and chunk_count 0 and leaves
\* document_count and chunk_count as they were.
C10_EveryFailureWritesErrorRow ==
    [][\A t \in Tasks :
        IngestRaises(t) =>
            /\ \E d \in DocIds :
                  /\ docs[d].status = "none"
                  /\ docs'[d].status = "error" /\ docs'[d].chunk_count = 0
                  /\ \A e \in DocIds \ {d} : docs'[e] = docs[e]
            /\ pipeline'.document_count = pipeline.document_count
            /\ pipeline'.chunk_count = pipeline.chunk_count]_vars

\* C10 amended: a failing ingest_document call whose except block commits
\* writes exactly one row, for its own document id, with status 'error' and
\* chunk_count 0; a call that ends with the exception of a commit (of the
\* INGESTING status, or of the except block) writes no row; in both cases
\* document_count and chunk_count are left as they were.
C10_HandledFailureWritesErrorRow ==
    [][\A t \in Tasks :
        IngestRaises(t) =>
            /\ ret'.res = "failed" =>
                  /\ pc[t] = "ing_c3"
                  /\ docs[loc[t].doc].status = "none"
                  /\ docs'[loc[t].doc].status = "error"
                  /\ docs'[loc[t].doc].chunk_count = 0
                  /\ docs'[loc[t].doc].file_name = loc[t].file_name
                  /\ \A e \in DocIds \ {loc[t].doc} : docs'[e] = docs[e]
            /\ ret'.res = "commit_failed" => docs' = docs
            /\ pipeline'.document_count = pipeline.document_count
            /\ pipeline'.chunk_count = pipeline.chunk_count]_vars

C10_Witness ==
    /\ IngestFailed(ret) /\ ret.res = "failed" /\ ret.doc = 2
    /\ docs[2].status = "error" /\ docs[2].chunk_count = 0
    /\ docs[1].status = "processed"
    /\ pipeline.document_count = 1
    /\ pipeline.chunk_count = docs[1].chunk_count

\* C11: ERROR does not absorb.  ingest_document is refused only when there
\* is no pipeline row, whatever the status; every ingest that succeeds
\* leaves the stored status READY, a status the READY check of query lets
\* through; and a query is refused for its status only when the status it
\* loaded is not READY.
C11_ErrorRecovers ==
    [][\A t \in Tasks :
        /\ (pc' = pc /\ nreq' = nreq + 1 /\ ret'.op = "ingest") =>
              ~pipeline.exists
        /\ (pc[t] = "ing_c2" /\ pc'[t] = "idle" /\ ret'.res = "ok") =>
              /\ pipeline'.status = READY
              /\ QueryAccepts(pipeline')
        /\ (pc[t] = "q_check" /\ pc'[t] = "idle") =>
              sess[t].status # READY]_vars

C11_Witness ==
    /\ ret.op = "query" /\ ret.res = "ok"
    /\ docs[1].status = "error"
    /\ docs[2].status = "processed"
    /\ pipeline.status = READY
    /\ pipeline.total_queries = 1

\* C12: once delete_pipeline has succeeded the row stays gone, no document
\* row and no chunk is left, and get_pipeline answers not found; a
\* delete_pipeline for a pipeline that was deleted or never created is not
\* started: it answers not found and changes no row and no chunk.
C12_DeletedIsNotFound ==
    [][/\ pipeline = DeletedPipeline => pipeline' = DeletedPipeline
       /\ (ret'.op = "delete_pipeline" /\ ret'.res = "ok") =>
             /\ pipeline' = DeletedPipeline
             /\ \A d \in DocIds : docs'[d] = NoDoc
             /\ store' = {}
       /\ (nreq' = nreq + 1 /\ pipeline \in {NoPipeline, DeletedPipeline}) =>
             /\ ret'.op = "get" => ret'.res = "not_found"
             /\ \A t \in Tasks : pc[t] # "dp_commit" => pc'[t] # "dp_commit"
             /\ ret'.op = "delete_pipeline" =>
                   /\ ret'.res = "not_found"
                   /\ pipeline' = pipeline /\ docs' = docs /\ store' = store]_vars

C12_Witness ==
    /\ ret.op = "delete_pipeline" /\ ret.res = "not_found"
    /\ pipeline = DeletedPipeline
    /\ nreq = 4
    /\ store = {}

\* C13 as stated: the configuration get_pipeline returns after
\* create_pipeline is the configuration that was submitted, in all five
\* blocks, and the pipeline is CREATED with all counters 0.
C13_GetReturnsSubmittedConfig ==
    (call.op = "create_pipeline" /\ call.step = "got") =>
        LET r == Unwrap(call.response) IN
        /\ r.config = ConfigJson(ParseConfig(call.body))
        /\ r.status = CREATED
        /\ r.document_count = 0 /\ r.chunk_count = 0 /\ r.total_queries = 0

\* C13 amended: get_pipeline returns the submitted configuration in all five
\* blocks except that a collection_name left out (or empty) comes back as
\* "pipeline_" followed by the first 8 characters of the pipeline id; a
\* collection_name that was given comes back unchanged; the pipeline is
\* CREATED with document_count, chunk_count and total_queries 0.
C13_GetReturnsEffectiveConfig ==
    (call.op = "create_pipeline" /\ call.step = "got") =>
        LET r     == Unwrap(call.response)
            sent  == ConfigJson(ParseConfig(call.body))
            given == call.body.collection_name
            name  == IF given \in {None, Some(<<>>)}
                     THEN Some(Chars_pipeline_ \o SubSeq(r.id, 1, 8))
                     ELSE given
        IN
        /\ r.config = [sent EXCEPT !.vector_store.collection_name = name]
        /\ Len(Unwrap(r.config.vector_store.collection_name)) > 0
        /\ r.status = CREATED
        /\ r.document_count = 0 /\ r.chunk_count = 0 /\ r.total_queries = 0

C13_Witness ==
    /\ call.op = "create_pipeline" /\ call.step = "got"
    /\ call.body.collection_name = None
    /\ call.body.top_k = Some(TOP_K_MAX)
    /\ call.body.strategy = Some("fixed_size")
    /\ Unwrap(call.response).config.vector_store.collection_name =
          Some(<<"p", "i", "p", "e", "l", "i", "n", "e", "_",
                 "3", "f", "a", "8", "5", "f", "6", "4">>)
    /\ Unwrap(call.response).config.retrieval.top_k = TOP_K_MAX
    /\ Unwrap(call.response).config.chunking.strategy = "fixed_size"

\* C14: a create_pipeline whose body violates one of the bounds on
\* chunk_size, chunk_overlap, top_k, reranking_top_k or score_threshold, or
\* has chunk_overlap >= chunk_size, is rejected by validation, and leaves no
\* pipeline row and no collection.
C14_BadBoundsRejected ==
    LET b  == call.body
        cs == OrDefault(b.chunk_size, 1000)
        co == OrDefault(b.chunk_overlap, 200)
        bad ==
            \/ cs < CHUNK_SIZE_MIN \/ cs > CHUNK_SIZE_MAX
            \/ co < 0 \/ co > CHUNK_OVERLAP_MAX
            \/ co >= cs
            \/ \E v \in b.top_k : v < 1 \/ v > TOP_K_MAX
            \/ \E v \in b.reranking_top_k : v < 1 \/ v > RERANKING_TOP_K_MAX
            \/ \E v \in b.score_threshold : v < 0 \/ v > SCORE_THRESHOLD_MAX
    IN (call.op = "create_pipeline" /\ call.step # "submitted" /\ bad) =>
          /\ call.step = "rejected"
          /\ ~pipeline.exists
          /\ call.collection = None

\* C15: _call_llm calls the configured provider first and then the other
\* providers in the order gemini, groq, openrouter, openai, anthropic,
\* deepseek, none of them twice; it returns the reply of the first provider
\* that replies with text and calls no provider after it; when no provider
\* replies with text it has called all six and returns None.
C15_DispatchOrder ==
    call.op = "call_llm" =>
        LET order == <<call.provider>> \o
                       SelectSeq(<<"gemini", "groq", "openrouter", "openai",
                                   "anthropic", "deepseek">>,
                                 LAMBDA pr : pr # call.provider)
            n == Len(call.tried)
        IN
        /\ n <= Len(order)
        /\ call.tried = SubSeq(order, 1, n)
        /\ \A i, j \in 1..n : i # j => call.tried[i] # call.tried[j]
        /\ \A i \in 1..(n - 1) : call.env[call.tried[i]] # "text"
        /\ call.step = "returned" =>
              IF \E pr \in LLMProvider : call.env[pr] = "text"
              THEN /\ call.env[call.tried[n]] = "text"
                   /\ call.result = Some(call.tried[n])
              ELSE /\ n = Len(order)
                   /\ call.result = None
        /\ call.step = "fallback" => n >= 1 /\ n < Len(order)

C15_Witness ==
    /\ call.op = "call_llm" /\ call.step = "returned"
    /\ call.provider = "openai"
    /\ call.tried = <<"openai", "gemini", "groq", "openrouter", "anthropic", "deepseek">>
    /\ call.result = Some("deepseek")
    /\ call.env["openai"] = "raises"
    /\ call.env["gemini"] = "no_key"
    /\ call.env["groq"] = "empty"

\* C20: the commit of every successful query grows the stored total_queries
\* by exactly 1, whatever other queries overlap it, and changes nothing of
\* the pipeline but total_queries and last_query_at, no document row and no
\* chunk.
C20_QueryCountsOnce ==
    [][\A t \in Tasks :
        (pc[t] = "q_commit" /\ pc'[t] = "idle" /\ ret'.res = "ok") =>
            /\ pipeline'.total_queries = pipeline.total_queries + 1
            /\ pipeline' = [pipeline EXCEPT
                              !.total_queries = pipeline'.total_queries,
                              !.last_query_at = pipeline'.last_query_at]
            /\ docs' = docs
            /\ store' = store]_vars

\* what a finished query call returned
Response == Unwrap(call.response)

Returned == call.op = "query" /\ call.step = "returned"

\* the reranker was run and did not give one score per candidate
RerankerFailed ==
    /\ call.op = "query" /\ call.step \in {"reranked", "raised", "returned", "commit_failed"}
    /\ call.passed > 0
    /\ call.reranker.qwen # "scores" /\ call.reranker.llm # "scores"

\* C16: a query with generate_answer = true whose answer synthesis gets no
\* text from any provider still returns: the answer is null, the results are
\* retrieved chunks (as many as the query returns without an answer) and
\* total_queries has been incremented
C16_AnswerFailureSwallowed ==
    (Returned /\ call.request.generate_answer /\ call.answer_reply = None) =>
        /\ Response.answer = None
        /\ Response.results = call.chunks
        /\ Response.total_results = Len(call.chunks)
        /\ \A i \in 1..Len(Response.results) :
              \E j \in 1..Len(call.ann) : call.ann[j].rank = Response.results[i].rank
        /\ (call.ann # <<>> => Response.results # <<>>)
        /\ pipeline.total_queries = 1

C16_Witness ==
    /\ Returned /\ call.request.generate_answer /\ call.answer_reply = None
    /\ Len(Response.results) > 1
    /\ Response.answer = None
    /\ pipeline.total_queries = 1

\* C17: when the reranker fails, the query does not fail and returns the
\* retrieved chunks unmodified, in ANN order, with reranking_applied = false
C17_RerankerFailureSwallowed ==
    RerankerFailed =>
        /\ call.step # "raised"
        /\ ~call.reranking_applied
        /\ (call.step = "reranked" => call.chunks = call.ann)
        /\ (call.step = "returned" =>
              /\ ~Response.reranking_applied
              /\ Response.results =
                   SubSeq(call.ann, 1, Min(TopK(call.request, call.config), Len(call.ann))))

\* C18: a response with reranking_applied = true came from at most 10
\* candidates and holds at most reranking_top_k and at most top_k chunks in
\* non-increasing rerank_score order; with reranking disabled the chunks are
\* in the order of the vector store
C18_RerankBounds ==
    Returned =>
        LET res == Response.results IN
        /\ Response.reranking_applied =>
              /\ call.passed <= 10
              /\ Len(res) <= call.config.reranking_top_k
              /\ Len(res) <= TopK(call.request, call.config)
              /\ \A i \in 1..Len(res) : res[i].rerank_score # None
              /\ \A i, j \in 1..Len(res) :
                    i < j => Unwrap(res[i].rerank_score) >= Unwrap(res[j].rerank_score)
        /\ ~RerankingEnabled(call.request, call.config) =>
              /\ ~Response.reranking_applied
              /\ res = SubSeq(call.ann, 1, Len(res))

C18_Witness ==
    /\ Returned /\ Response.reranking_applied
    /\ Len(call.ann) > 10 /\ call.passed = 10
    /\ Len(Response.results) > 1
    /\ Response.results[1].rank > Response.results[2].rank
    /\ Unwrap(Response.results[1].rerank_score) > Unwrap(Response.results[2].rerank_score)

\* what C19 says of the returned chunks: with no score threshold and
\* reranking disabled, min(k, N) chunks with scores in [0,1], non-increasing;
\* and of fetch_k
C19_ResultsAndFetchK ==
    /\ (call.op = "query" /\ call.step # "accepted") =>
          call.fetch_k = IF RerankingEnabled(call.request, call.config)
                         THEN Min(TopK(call.request, call.config) + 5, 15)
                         ELSE TopK(call.request, call.config)
    /\ (/\ Returned
        /\ call.config.score_threshold = None
        /\ ~RerankingEnabled(call.request, call.config)) =>
          LET res == Response.results IN
          /\ Len(res) = Min(TopK(call.request, call.config), call.count)
          /\ \A i \in 1..Len(res) : res[i].score \in 0..100
          /\ \A i, j \in 1..Len(res) : i < j => res[i].score >= res[j].score

IngestInFlight(t) == pc[t] \in {"ing_work", "ing_c2", "ing_c3"}

\* C23: while an ingest_document call on the pipeline is in flight the
\* status is INGESTING; it is not READY, and no query is accepted, as long
\* as an ingest is still in flight
C23_IngestingWhileInFlight ==
    ((\E t \in Tasks : IngestInFlight(t)) /\ pipeline.exists) =>
        /\ pipeline.status = INGESTING
        /\ \A u \in Tasks : pc[u] # "q_commit"

\* C24: once delete_pipeline has completed and every operation that was in
\* flight on the pipeline has finished, no chunk and no collection of the
\* pipeline exists
C24_CollectionGoneWithPipeline ==
    (~pipeline.exists /\ pipeline.status = "deleted" /\ AllIdle) => store = {}

\* C25: delete_pipeline removes the vectors, then the Document rows, then the
\* pipeline row: in no state, intermediate states included, do vectors or
\* Document rows exist while the pipeline row is already gone
C25_RowGoesLast ==
    pipeline.status = "deleted" =>
        /\ store = {}
        /\ \A d \in DocIds : docs[d] = NoDoc

\* C29: every ingest_document call that has committed INGESTING ends with the
\* status READY or ERROR: the pipeline is never INGESTING while no
\* ingest_document call is running
C29_NeverStuckIngesting ==
    (pipeline.exists /\ \A t \in Tasks : pc[t] \notin {"ing_c1", "ing_work", "ing_c2", "ing_c3"})
        => pipeline.status # INGESTING

\* the upload is one C21 speaks of: its extension is not in the list, its
\* body is empty, or it is larger than 20 MB
C21_BadUpload ==
    \/ FileExt(call.filename) \notin
          {<<".", "t", "x", "t">>, <<".", "p", "d", "f">>, <<".", "m", "d">>,
           <<".", "c", "s", "v">>, <<".", "j", "s", "o", "n">>, <<".", "d", "o", "c", "x">>,
           <<".", "h", "t", "m", "l">>, <<".", "h", "t", "m">>}
    \/ call.size = 0
    \/ call.size > 20971520

\* C21: an upload with an extension outside the list, an empty body or more
\* than 20 MB is answered 400 before ingestion starts: no call of
\* ingest_document, and the rows, the collection and the pipeline's counters
\* and status are as before
C21_BadUploadRejected ==
    (call.op = "upload" /\ call.step # "received" /\ C21_BadUpload) =>
        /\ call.step = "responded" /\ call.http = 400
        /\ nreq = call.started /\ AllIdle
        /\ pipeline = call.before.pipeline
        /\ docs = call.before.docs
        /\ store = call.before.store

C21_Witness ==
    /\ call.op = "upload" /\ call.step = "responded" /\ call.http = 400
    /\ call.filename = Some(<<"a", ".", "t", "x", "t", ".", "e", "x", "e">>)
    /\ call.size = 1
    /\ pipeline.status = READY /\ pipeline.document_count = 1 /\ store # {}

\* C22: once the collection holds vectors of one embedding model, an ingest
\* or query that resolves to another embedding function fails with
\* EmbeddingMismatch; vectors of two models are never stored in, or compared
\* against, the same collection
C22_OneEmbeddingModel ==
    call.op = "embed" =>
        /\ Cardinality(call.held) <= 1
        /\ \A p \in call.compared : p[1] = p[2]
        /\ (call.step \in {"ingest", "query"} /\ call.prior # {} /\ call.model \notin call.prior)
              => call.result = "EmbeddingMismatch"

\* C26: fixed-size chunking terminates for every chunk_size and chunk_overlap
\* that create_pipeline accepts: the start offset strictly increases on every
\* iteration of the loop
C26_StartIncreases ==
    [][(call.op = "chunk" /\ call.strategy = "fixed_size" /\ call.step = "loop")
          => call'.start > call.start]_vars

\* the slices the loop has taken so far in a call with overlap < size
C27_Slices ==
    [i \in 1..Len(call.starts) |->
        PySlice(call.text, call.starts[i], call.starts[i] + call.chunk_size)]

\* what C27 says of the offsets: slice i starts at i * (size - overlap), and
\* when the loop has ended there is a slice for every such offset below L
C27_Offsets ==
    /\ \A i \in 1..Len(call.starts) :
          call.starts[i] = (i - 1) * (call.chunk_size - call.chunk_overlap)
    /\ call.step = "done" =>
          Len(call.starts) * (call.chunk_size - call.chunk_overlap) >= Len(call.text)

\* C27 as stated: the chunks are the slices text[i*(s-o), i*(s-o)+s) that
\* are not white space only, in increasing i, and consecutive chunks share
\* exactly o characters except possibly the last
C27_ChunksAreSlices ==
    (call.op = "chunk" /\ call.strategy = "fixed_size"
        /\ call.chunk_overlap < call.chunk_size) =>
        /\ C27_Offsets
        /\ call.chunks = SelectSeq(C27_Slices, LAMBDA sl : Strip(sl) # <<>>)
        /\ \A k \in 1..(Len(call.chunks) - 2) :
              LET a == call.chunks[k]
                  b == call.chunks[k + 1]
              IN /\ Len(a) >= call.chunk_overlap /\ Len(b) >= call.chunk_overlap
                 /\ SubSeq(a, Len(a) - call.chunk_overlap + 1, Len(a))
                       = SubSeq(b, 1, call.chunk_overlap)

\* C27: the chunks are the slices text[i*(s-o), i*(s-o)+s) in increasing i,
\* each without the white space at its ends and left out when nothing
\* remains; two consecutive slices share exactly o characters when the
\* earlier one is not cut short by the end of the text, and fewer otherwise
C27_ChunksAreStrippedSlices ==
    (call.op = "chunk" /\ call.strategy = "fixed_size"
        /\ call.chunk_overlap < call.chunk_size) =>
        /\ C27_Offsets
        /\ call.chunks = SelectSeq([i \in 1..Len(C27_Slices) |-> Strip(C27_Slices[i])],
                                   LAMBDA ch : ch # <<>>)
        /\ \A k \in 1..(Len(C27_Slices) - 1) :
              LET a == C27_Slices[k]
                  b == C27_Slices[k + 1]
                  step == call.chunk_size - call.chunk_overlap
              IN /\ SubSeq(a, step + 1, Len(a)) = SubSeq(b, 1, Len(a) - step)
                 /\ Len(a) = call.chunk_size => Len(a) - step = call.chunk_overlap
                 /\ Len(a) < call.chunk_size => Len(a) - step < call.chunk_overlap

C27_Witness ==
    /\ call.op = "chunk" /\ call.strategy = "fixed_size" /\ call.step = "done"
    /\ call.chunk_size = 100 /\ call.chunk_overlap = 20
    /\ Len(call.text) = 260 /\ call.text[100] = " "
    /\ call.starts = <<0, 80, 160, 240>>
    /\ Len(call.chunks) = 4 /\ Len(call.chunks[1]) = 99

\* the letters of a text, in their order
C28_Letters(cs) == SelectSeq(cs, LAMBDA c : c \notin {" ", "\n", "\t", "."})

RECURSIVE C28_Concat(_)
C28_Concat(ss) == IF ss = <<>> THEN <<>> ELSE Head(ss) \o C28_Concat(Tail(ss))

\* C28: recursive chunking of a text that holds one of the separators emits
\* no chunk longer than chunk_size; the chunks are in document order (with
\* no overlap they hold the letters of the text in their order) and there
\* is a chunk iff the text is not white space only
C28_RecursiveChunksFit ==
    (call.op = "chunk" /\ call.strategy = "recursive" /\ call.step = "done") =>
        /\ (\E k \in 1..Len(separators) : Occurrences(call.text, separators[k]) # {})
              => \A i \in 1..Len(call.chunks) : Len(call.chunks[i]) <= call.chunk_size
        /\ call.chunk_overlap = 0
              => C28_Letters(C28_Concat(call.chunks)) = C28_Letters(call.text)
        /\ call.chunks # <<>> <=> Strip(call.text) # <<>>

\* C30: every change of a run's stored status follows VALID_TRANSITIONS; in
\* particular a stored status of COMPLETED, FAILED or CANCELLED never changes
\* again, whatever RunService calls and executions of the run overlap.
C30_StatusFollowsTransitions ==
    [][call.status' # call.status
          => validate_transition(call.status, call.status')]_vars

====
